---- MODULE Spec2Model ----
(***************************************************************************)
(* The citation-key resolution and multi-source fetch fallback chain of    *)
(* easybib (src/src/easybib/core.py): the key classifier, the four service *)
(* clients, and the three fetch strategies behind fetch_bibtex.            *)
(*                                                                         *)
(* A Python str is a sequence of one-character strings, so that strip(),   *)
(* startswith(), the regular expressions and the f-string labels are       *)
(* computed on characters.  Python's None is the value None below.  An     *)
(* HTTP exchange is one step: the request is appended to the log and the   *)
(* response is drawn from a bounded set of responses of the service.       *)
(***************************************************************************)
EXTENDS Integers, Sequences, FiniteSets

VARIABLES
    key,          \* fetch_bibtex argument: the citation key
    api_key,      \* fetch_bibtex argument: the ADS credential
    source,       \* fetch_bibtex argument: the strategy name, or NOT_GIVEN
    fn,           \* the function whose body is executing
    pc,           \* the call site the function is about to reach
    ads_bibcode,  \* local variable of the strategy functions
    arxiv_id,     \* local variable of the strategy functions
    bibtex,       \* local variable of the strategy functions
    log,          \* the client calls made so far, with what each returned
    response,     \* the HTTP response of the latest client call
    result        \* the pair returned by fetch_bibtex

vars == <<key, api_key, source, fn, pc, ads_bibcode, arxiv_id, bibtex, log,
          response, result>>

(***************************************************************************)
(* Bounds of the service responses.                                        *)
(***************************************************************************)
\* longest external_system_identifiers list of the first hit
MaxExternalIds == 2
\* longest arxiv_eprints list of the first hit
MaxEprints == 2
\* most hits in an INSPIRE JSON answer
MaxHits == 2
\* most docs in an ADS search answer
MaxDocs == 2

(***************************************************************************)
(* Values.                                                                 *)
(***************************************************************************)
\* Python's None; no str is equal to it (every element of a str is one character)
None == <<"None">>
\* the empty str
EMPTY == <<>>
\* fetch_bibtex called without its third argument
NOT_GIVEN == "<not given>"
\* core.py:276  the default of the parameter source
DEFAULT_SOURCE == "ads"
\* core.py:41, 59, 86, 100  the status code the clients accept
HTTP_OK == 200

\* core.py:103  "No records"
NO_RECORDS == <<"N", "o", " ", "r", "e", "c", "o", "r", "d", "s">>
\* core.py:68   "ADS"
SCHEMA_ADS == <<"A", "D", "S">>
\* a schema tag other than "ADS"
SCHEMA_OSTI == <<"O", "S", "T", "I">>
\* core.py:182
LABEL_ADS_DIRECT == <<"A", "D", "S", " ", "(", "d", "i", "r", "e", "c", "t", ")">>
\* core.py:191  f"ADS via INSPIRE ({ads_bibcode})"
LABEL_ADS_VIA_INSPIRE_PREFIX == <<"A", "D", "S", " ", "v", "i", "a", " ", "I", "N", "S", "P", "I", "R", "E", " ", "(">>
\* core.py:199  f"ADS via arXiv ({arxiv_id})"
LABEL_ADS_VIA_ARXIV_PREFIX == <<"A", "D", "S", " ", "v", "i", "a", " ", "a", "r", "X", "i", "v", " ", "(">>
\* core.py:191, 199  closing parenthesis of the f-strings
LABEL_SUFFIX == <<")">>
\* core.py:204
LABEL_ADS_DIRECT_FALLBACK == <<"A", "D", "S", " ", "(", "d", "i", "r", "e", "c", "t", " ", "f", "a", "l", "l", "b", "a", "c", "k", ")">>
\* core.py:209, 254
LABEL_INSPIRE_FALLBACK == <<"I", "N", "S", "P", "I", "R", "E", " ", "(", "f", "a", "l", "l", "b", "a", "c", "k", ")">>
\* core.py:219
LABEL_INSPIRE == <<"I", "N", "S", "P", "I", "R", "E">>
\* core.py:225
LABEL_ADS_FALLBACK_DIRECT == <<"A", "D", "S", " ", "(", "f", "a", "l", "l", "b", "a", "c", "k", ",", " ", "d", "i", "r", "e", "c", "t", ")">>
\* core.py:232, 265
LABEL_ADS_FALLBACK_VIA_INSPIRE == <<"A", "D", "S", " ", "(", "f", "a", "l", "l", "b", "a", "c", "k", ",", " ", "v", "i", "a", " ", "I", "N", "S", "P", "I", "R", "E", ")">>
\* core.py:239, 271
LABEL_ADS_FALLBACK_VIA_ARXIV == <<"A", "D", "S", " ", "(", "f", "a", "l", "l", "b", "a", "c", "k", ",", " ", "v", "i", "a", " ", "a", "r", "X", "i", "v", ")">>
\* core.py:250
LABEL_ADS_AUTO == <<"A", "D", "S", " ", "(", "a", "u", "t", "o", ")">>
\* core.py:259
LABEL_INSPIRE_AUTO == <<"I", "N", "S", "P", "I", "R", "E", " ", "(", "a", "u", "t", "o", ")">>
\* "2016PhRvL.116f1102A": an ADS bibcode
KEY_BIBCODE == <<"2", "0", "1", "6", "P", "h", "R", "v", "L", ".", "1", "1", "6", "f", "1", "1", "0", "2", "A">>
\* "Maldacena:1997re": an INSPIRE texkey
KEY_TEXKEY == <<"M", "a", "l", "d", "a", "c", "e", "n", "a", ":", "1", "9", "9", "7", "r", "e">>
\* "2016PhRvL.A": matches the bibcode pattern but is shorter than 15
KEY_SHORT == <<"2", "0", "1", "6", "P", "h", "R", "v", "L", ".", "A">>
\* "\u0662\u0660\u0661\u0666PhRvL.116f1102A": KEY_BIBCODE with its year in Arabic-Indic digits
KEY_BIBCODE_ARABIC == <<"U+0662", "U+0660", "U+0661", "U+0666", "P", "h", "R", "v", "L", ".", "1", "1", "6", "f", "1", "1", "0", "2", "A">>
\* "Smith:2020": neither pattern
KEY_UNKNOWN == <<"S", "m", "i", "t", "h", ":", "2", "0", "2", "0">>
\* "1998AdTMP...2..231M"
BIBCODE_A == <<"1", "9", "9", "8", "A", "d", "T", "M", "P", ".", ".", ".", "2", ".", ".", "2", "3", "1", "M">>
\* "hep-th/9711200"
ARXIV_A == <<"h", "e", "p", "-", "t", "h", "/", "9", "7", "1", "1", "2", "0", "0">>
\* "1602.03837"
ARXIV_B == <<"1", "6", "0", "2", ".", "0", "3", "8", "3", "7">>
\* "tok"
API_KEY_A == <<"t", "o", "k">>
\* "@a{k}"
TEXT_ENTRY == <<"@", "a", "{", "k", "}">>
\* " @b{j}\n": an entry wrapped in whitespace
TEXT_PADDED == <<" ", "@", "b", "{", "j", "}", "\n">>
\* " \n": whitespace only
TEXT_BLANK == <<" ", "\n">>
\* "\f@c{i}\u00a0": an entry between a form feed and a no-break space
TEXT_FF_PADDED == <<"\f", "@", "c", "{", "i", "}", "U+00A0">>
\* "\x0b\u2003": a vertical tab and an em space, whitespace only
TEXT_VT_BLANK == <<"", "U+2003">>
\* "No records found"
TEXT_NO_RECORDS == <<"N", "o", " ", "r", "e", "c", "o", "r", "d", "s", " ", "f", "o", "u", "n", "d">>
\* "\tNo records": the marker behind leading whitespace
TEXT_NO_RECORDS_PADDED == <<"\t", "N", "o", " ", "r", "e", "c", "o", "r", "d", "s">>
\* "No record": one character short of the marker
TEXT_NEAR_MARKER == <<"N", "o", " ", "r", "e", "c", "o", "r", "d">>

(***************************************************************************)
(* Python built-ins.                                                       *)
(***************************************************************************)
\* A character is written as itself when it is ASCII ("\t", "\n", "\r" and "\f"
\* with their escapes) and as "U+" followed by its code point in hexadecimal
\* otherwise: "U+0662" is the one character ARABIC-INDIC DIGIT TWO.
\* core.py:172  the class 0-9: the ASCII digits
AsciiDigits == {"0", "1", "2", "3", "4", "5", "6", "7", "8", "9"}
\* the other characters \d of a str pattern matches: the decimal digits (category
\* Nd) of Unicode 14.0, ten to a line from the zero of each script
UnicodeDigits == {
    "U+0660", "U+0661", "U+0662", "U+0663", "U+0664", "U+0665", "U+0666", "U+0667", "U+0668", "U+0669",
    "U+06F0", "U+06F1", "U+06F2", "U+06F3", "U+06F4", "U+06F5", "U+06F6", "U+06F7", "U+06F8", "U+06F9",
    "U+07C0", "U+07C1", "U+07C2", "U+07C3", "U+07C4", "U+07C5", "U+07C6", "U+07C7", "U+07C8", "U+07C9",
    "U+0966", "U+0967", "U+0968", "U+0969", "U+096A", "U+096B", "U+096C", "U+096D", "U+096E", "U+096F",
    "U+09E6", "U+09E7", "U+09E8", "U+09E9", "U+09EA", "U+09EB", "U+09EC", "U+09ED", "U+09EE", "U+09EF",
    "U+0A66", "U+0A67", "U+0A68", "U+0A69", "U+0A6A", "U+0A6B", "U+0A6C", "U+0A6D", "U+0A6E", "U+0A6F",
    "U+0AE6", "U+0AE7", "U+0AE8", "U+0AE9", "U+0AEA", "U+0AEB", "U+0AEC", "U+0AED", "U+0AEE", "U+0AEF",
    "U+0B66", "U+0B67", "U+0B68", "U+0B69", "U+0B6A", "U+0B6B", "U+0B6C", "U+0B6D", "U+0B6E", "U+0B6F",
    "U+0BE6", "U+0BE7", "U+0BE8", "U+0BE9", "U+0BEA", "U+0BEB", "U+0BEC", "U+0BED", "U+0BEE", "U+0BEF",
    "U+0C66", "U+0C67", "U+0C68", "U+0C69", "U+0C6A", "U+0C6B", "U+0C6C", "U+0C6D", "U+0C6E", "U+0C6F",
    "U+0CE6", "U+0CE7", "U+0CE8", "U+0CE9", "U+0CEA", "U+0CEB", "U+0CEC", "U+0CED", "U+0CEE", "U+0CEF",
    "U+0D66", "U+0D67", "U+0D68", "U+0D69", "U+0D6A", "U+0D6B", "U+0D6C", "U+0D6D", "U+0D6E", "U+0D6F",
    "U+0DE6", "U+0DE7", "U+0DE8", "U+0DE9", "U+0DEA", "U+0DEB", "U+0DEC", "U+0DED", "U+0DEE", "U+0DEF",
    "U+0E50", "U+0E51", "U+0E52", "U+0E53", "U+0E54", "U+0E55", "U+0E56", "U+0E57", "U+0E58", "U+0E59",
    "U+0ED0", "U+0ED1", "U+0ED2", "U+0ED3", "U+0ED4", "U+0ED5", "U+0ED6", "U+0ED7", "U+0ED8", "U+0ED9",
    "U+0F20", "U+0F21", "U+0F22", "U+0F23", "U+0F24", "U+0F25", "U+0F26", "U+0F27", "U+0F28", "U+0F29",
    "U+1040", "U+1041", "U+1042", "U+1043", "U+1044", "U+1045", "U+1046", "U+1047", "U+1048", "U+1049",
    "U+1090", "U+1091", "U+1092", "U+1093", "U+1094", "U+1095", "U+1096", "U+1097", "U+1098", "U+1099",
    "U+17E0", "U+17E1", "U+17E2", "U+17E3", "U+17E4", "U+17E5", "U+17E6", "U+17E7", "U+17E8", "U+17E9",
    "U+1810", "U+1811", "U+1812", "U+1813", "U+1814", "U+1815", "U+1816", "U+1817", "U+1818", "U+1819",
    "U+1946", "U+1947", "U+1948", "U+1949", "U+194A", "U+194B", "U+194C", "U+194D", "U+194E", "U+194F",
    "U+19D0", "U+19D1", "U+19D2", "U+19D3", "U+19D4", "U+19D5", "U+19D6", "U+19D7", "U+19D8", "U+19D9",
    "U+1A80", "U+1A81", "U+1A82", "U+1A83", "U+1A84", "U+1A85", "U+1A86", "U+1A87", "U+1A88", "U+1A89",
    "U+1A90", "U+1A91", "U+1A92", "U+1A93", "U+1A94", "U+1A95", "U+1A96", "U+1A97", "U+1A98", "U+1A99",
    "U+1B50", "U+1B51", "U+1B52", "U+1B53", "U+1B54", "U+1B55", "U+1B56", "U+1B57", "U+1B58", "U+1B59",
    "U+1BB0", "U+1BB1", "U+1BB2", "U+1BB3", "U+1BB4", "U+1BB5", "U+1BB6", "U+1BB7", "U+1BB8", "U+1BB9",
    "U+1C40", "U+1C41", "U+1C42", "U+1C43", "U+1C44", "U+1C45", "U+1C46", "U+1C47", "U+1C48", "U+1C49",
    "U+1C50", "U+1C51", "U+1C52", "U+1C53", "U+1C54", "U+1C55", "U+1C56", "U+1C57", "U+1C58", "U+1C59",
    "U+A620", "U+A621", "U+A622", "U+A623", "U+A624", "U+A625", "U+A626", "U+A627", "U+A628", "U+A629",
    "U+A8D0", "U+A8D1", "U+A8D2", "U+A8D3", "U+A8D4", "U+A8D5", "U+A8D6", "U+A8D7", "U+A8D8", "U+A8D9",
    "U+A900", "U+A901", "U+A902", "U+A903", "U+A904", "U+A905", "U+A906", "U+A907", "U+A908", "U+A909",
    "U+A9D0", "U+A9D1", "U+A9D2", "U+A9D3", "U+A9D4", "U+A9D5", "U+A9D6", "U+A9D7", "U+A9D8", "U+A9D9",
    "U+A9F0", "U+A9F1", "U+A9F2", "U+A9F3", "U+A9F4", "U+A9F5", "U+A9F6", "U+A9F7", "U+A9F8", "U+A9F9",
    "U+AA50", "U+AA51", "U+AA52", "U+AA53", "U+AA54", "U+AA55", "U+AA56", "U+AA57", "U+AA58", "U+AA59",
    "U+ABF0", "U+ABF1", "U+ABF2", "U+ABF3", "U+ABF4", "U+ABF5", "U+ABF6", "U+ABF7", "U+ABF8", "U+ABF9",
    "U+FF10", "U+FF11", "U+FF12", "U+FF13", "U+FF14", "U+FF15", "U+FF16", "U+FF17", "U+FF18", "U+FF19",
    "U+104A0", "U+104A1", "U+104A2", "U+104A3", "U+104A4", "U+104A5", "U+104A6", "U+104A7", "U+104A8", "U+104A9",
    "U+10D30", "U+10D31", "U+10D32", "U+10D33", "U+10D34", "U+10D35", "U+10D36", "U+10D37", "U+10D38", "U+10D39",
    "U+11066", "U+11067", "U+11068", "U+11069", "U+1106A", "U+1106B", "U+1106C", "U+1106D", "U+1106E", "U+1106F",
    "U+110F0", "U+110F1", "U+110F2", "U+110F3", "U+110F4", "U+110F5", "U+110F6", "U+110F7", "U+110F8", "U+110F9",
    "U+11136", "U+11137", "U+11138", "U+11139", "U+1113A", "U+1113B", "U+1113C", "U+1113D", "U+1113E", "U+1113F",
    "U+111D0", "U+111D1", "U+111D2", "U+111D3", "U+111D4", "U+111D5", "U+111D6", "U+111D7", "U+111D8", "U+111D9",
    "U+112F0", "U+112F1", "U+112F2", "U+112F3", "U+112F4", "U+112F5", "U+112F6", "U+112F7", "U+112F8", "U+112F9",
    "U+11450", "U+11451", "U+11452", "U+11453", "U+11454", "U+11455", "U+11456", "U+11457", "U+11458", "U+11459",
    "U+114D0", "U+114D1", "U+114D2", "U+114D3", "U+114D4", "U+114D5", "U+114D6", "U+114D7", "U+114D8", "U+114D9",
    "U+11650", "U+11651", "U+11652", "U+11653", "U+11654", "U+11655", "U+11656", "U+11657", "U+11658", "U+11659",
    "U+116C0", "U+116C1", "U+116C2", "U+116C3", "U+116C4", "U+116C5", "U+116C6", "U+116C7", "U+116C8", "U+116C9",
    "U+11730", "U+11731", "U+11732", "U+11733", "U+11734", "U+11735", "U+11736", "U+11737", "U+11738", "U+11739",
    "U+118E0", "U+118E1", "U+118E2", "U+118E3", "U+118E4", "U+118E5", "U+118E6", "U+118E7", "U+118E8", "U+118E9",
    "U+11950", "U+11951", "U+11952", "U+11953", "U+11954", "U+11955", "U+11956", "U+11957", "U+11958", "U+11959",
    "U+11C50", "U+11C51", "U+11C52", "U+11C53", "U+11C54", "U+11C55", "U+11C56", "U+11C57", "U+11C58", "U+11C59",
    "U+11D50", "U+11D51", "U+11D52", "U+11D53", "U+11D54", "U+11D55", "U+11D56", "U+11D57", "U+11D58", "U+11D59",
    "U+11DA0", "U+11DA1", "U+11DA2", "U+11DA3", "U+11DA4", "U+11DA5", "U+11DA6", "U+11DA7", "U+11DA8", "U+11DA9",
    "U+16A60", "U+16A61", "U+16A62", "U+16A63", "U+16A64", "U+16A65", "U+16A66", "U+16A67", "U+16A68", "U+16A69",
    "U+16AC0", "U+16AC1", "U+16AC2", "U+16AC3", "U+16AC4", "U+16AC5", "U+16AC6", "U+16AC7", "U+16AC8", "U+16AC9",
    "U+16B50", "U+16B51", "U+16B52", "U+16B53", "U+16B54", "U+16B55", "U+16B56", "U+16B57", "U+16B58", "U+16B59",
    "U+1D7CE", "U+1D7CF", "U+1D7D0", "U+1D7D1", "U+1D7D2", "U+1D7D3", "U+1D7D4", "U+1D7D5", "U+1D7D6", "U+1D7D7",
    "U+1D7D8", "U+1D7D9", "U+1D7DA", "U+1D7DB", "U+1D7DC", "U+1D7DD", "U+1D7DE", "U+1D7DF", "U+1D7E0", "U+1D7E1",
    "U+1D7E2", "U+1D7E3", "U+1D7E4", "U+1D7E5", "U+1D7E6", "U+1D7E7", "U+1D7E8", "U+1D7E9", "U+1D7EA", "U+1D7EB",
    "U+1D7EC", "U+1D7ED", "U+1D7EE", "U+1D7EF", "U+1D7F0", "U+1D7F1", "U+1D7F2", "U+1D7F3", "U+1D7F4", "U+1D7F5",
    "U+1D7F6", "U+1D7F7", "U+1D7F8", "U+1D7F9", "U+1D7FA", "U+1D7FB", "U+1D7FC", "U+1D7FD", "U+1D7FE", "U+1D7FF",
    "U+1E140", "U+1E141", "U+1E142", "U+1E143", "U+1E144", "U+1E145", "U+1E146", "U+1E147", "U+1E148", "U+1E149",
    "U+1E2F0", "U+1E2F1", "U+1E2F2", "U+1E2F3", "U+1E2F4", "U+1E2F5", "U+1E2F6", "U+1E2F7", "U+1E2F8", "U+1E2F9",
    "U+1E950", "U+1E951", "U+1E952", "U+1E953", "U+1E954", "U+1E955", "U+1E956", "U+1E957", "U+1E958", "U+1E959",
    "U+1FBF0", "U+1FBF1", "U+1FBF2", "U+1FBF3", "U+1FBF4", "U+1FBF5", "U+1FBF6", "U+1FBF7", "U+1FBF8", "U+1FBF9"}
\* core.py:165, 172  the characters \d matches
Digits == AsciiDigits \cup UnicodeDigits
Upper == {"A", "B", "C", "D", "E", "F", "G", "H", "I", "J", "K", "L", "M",
          "N", "O", "P", "Q", "R", "S", "T", "U", "V", "W", "X", "Y", "Z"}
Lower == {"a", "b", "c", "d", "e", "f", "g", "h", "i", "j", "k", "l", "m",
          "n", "o", "p", "q", "r", "s", "t", "u", "v", "w", "x", "y", "z"}
\* the characters str.strip() removes, those for which str.isspace() holds: the
\* ASCII ones are tab, line feed, vertical tab, form feed, carriage return, the
\* separators 0x1C to 0x1F and the space
Whitespace == {
    "\t", "\n", "", "\f", "\r", "", "", "", "", " ",
    "U+0085", "U+00A0", "U+1680", "U+2000", "U+2001", "U+2002", "U+2003", "U+2004",
    "U+2005", "U+2006", "U+2007", "U+2008", "U+2009", "U+200A", "U+2028", "U+2029",
    "U+202F", "U+205F", "U+3000"}

\* bool(v) of a value that is None or a str
Truthy(v) == v /= None /\ v /= EMPTY

RECURSIVE lstrip(_)
lstrip(s) ==
    IF s /= EMPTY /\ Head(s) \in Whitespace THEN lstrip(Tail(s)) ELSE s

RECURSIVE rstrip(_)
rstrip(s) ==
    IF s /= EMPTY /\ s[Len(s)] \in Whitespace
    THEN rstrip(SubSeq(s, 1, Len(s) - 1))
    ELSE s

\* str.strip()
strip(s) == rstrip(lstrip(s))

\* str.startswith(prefix)
startswith(s, prefix) ==
    /\ Len(s) >= Len(prefix)
    /\ SubSeq(s, 1, Len(prefix)) = prefix

\* dict.get(k, default) of a JSON object, which is a record
dict_get(d, k, default) == IF k \in DOMAIN d THEN d[k] ELSE default

\* the positions at which "$" matches: the end, and before a final newline
DollarEnds(s) ==
    {Len(s)} \cup (IF s /= EMPTY /\ s[Len(s)] = "\n" THEN {Len(s) - 1} ELSE {})

(***************************************************************************)
(* Key classifier.                                                         *)
(***************************************************************************)
\* core.py:165  ^\d{4}[A-Za-z&.]+\..*[A-Z]$
ads_pattern_match(s) ==
    \E e \in DollarEnds(s) :
      \E i \in 5 .. e :
        /\ \A j \in 1 .. 4 : s[j] \in Digits
        /\ \A j \in 5 .. i : s[j] \in Upper \cup Lower \cup {"&", "."}
        /\ i + 2 <= e
        /\ s[i + 1] = "."
        /\ \A j \in (i + 2) .. (e - 1) : s[j] /= "\n"
        /\ s[e] \in Upper

is_ads_bibcode(k) == ads_pattern_match(k) /\ Len(k) >= 15

\* core.py:172  ^[A-Za-z][A-Za-z0-9-]+:\d{4}[a-z]{2,3}$
inspire_pattern_match(s) ==
    \E e \in DollarEnds(s) :
      \E n \in {2, 3} :
        LET c == e - n - 4 IN
          /\ c >= 3
          /\ s[1] \in Upper \cup Lower
          /\ \A j \in 2 .. (c - 1) : s[j] \in Upper \cup Lower \cup AsciiDigits \cup {"-"}
          /\ s[c] = ":"
          /\ \A j \in (c + 1) .. (c + 4) : s[j] \in Digits
          /\ \A j \in (c + 5) .. e : s[j] \in Lower

is_inspire_key(k) == inspire_pattern_match(k)

(***************************************************************************)
(* HTTP responses.  exc: requests.get / requests.post raised (a transport  *)
(* failure).  json_ok: response.json() parses the body; json is then the   *)
(* parsed object, a record.  text is response.text.                        *)
(***************************************************************************)
Raises == [exc |-> TRUE, status_code |-> 0, text |-> EMPTY, json_ok |-> FALSE,
           json |-> [message |-> EMPTY]]

TextResponse(status, text) ==
    [exc |-> FALSE, status_code |-> status, text |-> text, json_ok |-> FALSE,
     json |-> [message |-> EMPTY]]

JsonResponse(status, json) ==
    [exc |-> FALSE, status_code |-> status, text |-> EMPTY, json_ok |-> TRUE,
     json |-> json]

\* the response before any request was made
NoResponse == TextResponse(0, EMPTY)

\* a JSON object with none of the members the clients read
OtherObject == [message |-> EMPTY]

\* all sequences over S of length at most n
SeqsUpTo(S, n) == UNION {[1 .. m -> S] : m \in 0 .. n}

StatusCodes == {HTTP_OK, 404}

Texts == {EMPTY, TEXT_BLANK, TEXT_VT_BLANK, TEXT_ENTRY, TEXT_PADDED, TEXT_FF_PADDED,
          TEXT_NO_RECORDS, TEXT_NO_RECORDS_PADDED, TEXT_NEAR_MARKER}

\* what INSPIRE may answer to the BibTeX query of get_inspire_bibtex
InspireBibtexResponses ==
    {Raises} \cup {TextResponse(s, t) : s \in StatusCodes, t \in Texts}

\* what ADS may answer to the export request of get_ads_bibtex
AdsExportResponses ==
    {Raises}
    \cup {TextResponse(s, TEXT_ENTRY) : s \in StatusCodes}
    \cup {JsonResponse(s, OtherObject) : s \in StatusCodes}
    \cup {JsonResponse(HTTP_OK, [export |-> t]) : t \in Texts \cup {None}}
    \cup {JsonResponse(404, [export |-> TEXT_ENTRY])}

Docs == {[bibcode |-> BIBCODE_A], [bibcode |-> KEY_BIBCODE], OtherObject}

\* what ADS may answer to the search request of search_ads_by_arxiv
AdsSearchResponses ==
    {Raises}
    \cup {TextResponse(s, TEXT_ENTRY) : s \in StatusCodes}
    \cup {JsonResponse(s, OtherObject) : s \in StatusCodes}
    \cup {JsonResponse(s, [response |-> [docs |-> d]]) :
            s \in StatusCodes, d \in SeqsUpTo(Docs, MaxDocs)}

ExternalIds == {[schema |-> SCHEMA_ADS, value |-> BIBCODE_A],
                [schema |-> SCHEMA_ADS, value |-> KEY_BIBCODE],
                [schema |-> SCHEMA_OSTI, value |-> BIBCODE_A]}

Eprints == {[value |-> ARXIV_A], [value |-> ARXIV_B]}

Hit(ids, eprints) ==
    [metadata |-> [external_system_identifiers |-> ids, arxiv_eprints |-> eprints]]

\* the first hit of an INSPIRE JSON answer
FirstHits ==
    {Hit(ids, eps) : ids \in SeqsUpTo(ExternalIds, MaxExternalIds),
                     eps \in SeqsUpTo(Eprints, MaxEprints)}

\* the hits after the first
LaterHits ==
    {Hit(<<[schema |-> SCHEMA_ADS, value |-> BIBCODE_A]>>, <<[value |-> ARXIV_B]>>),
     Hit(<<>>, <<>>)}

HitLists ==
    {<<>>} \cup {<<h>> \o t : h \in FirstHits, t \in SeqsUpTo(LaterHits, MaxHits - 1)}

\* what INSPIRE may answer to the JSON query of get_ads_info_from_inspire
InspireJsonResponses ==
    {Raises}
    \cup {TextResponse(s, TEXT_ENTRY) : s \in StatusCodes}
    \cup {JsonResponse(s, OtherObject) : s \in StatusCodes}
    \cup {JsonResponse(HTTP_OK, [hits |-> [hits |-> h]]) : h \in HitLists}
    \cup {JsonResponse(404, [hits |-> [hits |-> h]]) : h \in SeqsUpTo(LaterHits, 1)}

(***************************************************************************)
(* Service clients.  Each maps the response of its one request to what the *)
(* client returns: [raised |-> TRUE] when an exception leaves the client,  *)
(* else its return value.                                                  *)
(***************************************************************************)
Raised == [raised |-> TRUE, value |-> None]
Returns(v) == [raised |-> FALSE, value |-> v]

get_inspire_bibtex(r) ==
    IF r.exc THEN Raised
    ELSE IF r.status_code = HTTP_OK /\ strip(r.text) /= EMPTY
         THEN Returns(strip(r.text))
    ELSE Returns(None)

\* first_ads_value with a fault: the loop has no "break", the last "ADS" entry wins
first_ads_value_no_break(external_ids, i) ==
    LET ads == {j \in i .. Len(external_ids) :
                  dict_get(external_ids[j], "schema", None) = SCHEMA_ADS}
    IN  IF ads = {} THEN None
        ELSE dict_get(external_ids[CHOOSE j \in ads : \A k \in ads : k <= j], "value", None)

\* core.py:67-70  the value of the first entry whose schema is "ADS"
RECURSIVE first_ads_value(_, _)
first_ads_value(external_ids, i) ==
    IF i > Len(external_ids) THEN None
    ELSE IF dict_get(external_ids[i], "schema", None) = SCHEMA_ADS
         THEN dict_get(external_ids[i], "value", None)
    ELSE first_ads_value(external_ids, i + 1)

get_ads_info_from_inspire(r) ==
    IF r.exc THEN Raised
    ELSE IF r.status_code /= HTTP_OK THEN Returns(<<None, None>>)
    ELSE IF ~r.json_ok THEN Raised
    ELSE LET hits == dict_get(dict_get(r.json, "hits", OtherObject), "hits", <<>>)
         IN  IF hits = <<>> THEN Returns(<<None, None>>)
             ELSE LET metadata == dict_get(hits[1], "metadata", OtherObject)
                      external_ids ==
                          dict_get(metadata, "external_system_identifiers", <<>>)
                      arxiv_eprints == dict_get(metadata, "arxiv_eprints", <<>>)
                  IN  Returns(<<first_ads_value(external_ids, 1),
                                IF arxiv_eprints /= <<>>
                                THEN dict_get(arxiv_eprints[1], "value", None)
                                ELSE None>>)

search_ads_by_arxiv(r) ==
    IF r.exc THEN Raised
    ELSE IF r.status_code /= HTTP_OK THEN Returns(None)
    ELSE IF ~r.json_ok THEN Raised
    ELSE LET docs == dict_get(dict_get(r.json, "response", OtherObject), "docs", <<>>)
         IN  IF docs /= <<>> THEN Returns(dict_get(docs[1], "bibcode", None))
             ELSE Returns(None)

\* get_ads_bibtex with a fault: the "No records" marker is not looked for
get_ads_bibtex_no_marker(r) ==
    IF r.exc THEN Raised
    ELSE IF r.status_code /= HTTP_OK THEN Returns(None)
    ELSE IF ~r.json_ok THEN Raised
    ELSE IF dict_get(r.json, "export", EMPTY) = None THEN Raised
    ELSE LET export == strip(dict_get(r.json, "export", EMPTY))
         IN  IF export /= EMPTY THEN Returns(export) ELSE Returns(None)

\* core.py:94-105  an "export" member that is JSON null has no strip(): the
\* AttributeError leaves the client
get_ads_bibtex(r) ==
    IF r.exc THEN Raised
    ELSE IF r.status_code /= HTTP_OK THEN Returns(None)
    ELSE IF ~r.json_ok THEN Raised
    ELSE IF dict_get(r.json, "export", EMPTY) = None THEN Raised
    ELSE LET export == strip(dict_get(r.json, "export", EMPTY))
         IN  IF export /= EMPTY /\ ~startswith(export, NO_RECORDS)
             THEN Returns(export)
             ELSE Returns(None)

(***************************************************************************)
(* Inputs of fetch_bibtex.                                                 *)
(***************************************************************************)
Keys == {KEY_BIBCODE, KEY_BIBCODE_ARABIC, KEY_TEXKEY, KEY_SHORT, KEY_UNKNOWN}
ApiKeys == {EMPTY, API_KEY_A}
Sources == {"ads", "inspire", "auto", "ADS", NOT_GIVEN}

ADS_PREFERRED == "fetch_bibtex_ads_preferred"
INSPIRE_PREFERRED == "fetch_bibtex_inspire_preferred"
AUTO == "fetch_bibtex_auto"

Init ==
    /\ key \in Keys
    /\ api_key \in ApiKeys
    /\ source \in Sources
    /\ fn = "fetch_bibtex"
    /\ pc = "call"
    /\ ads_bibcode = None
    /\ arxiv_id = None
    /\ bibtex = None
    /\ log = <<>>
    /\ response = NoResponse
    /\ result = <<None, None>>

(***************************************************************************)
(* Steps shared by the three strategy functions.                           *)
(***************************************************************************)
\* one client call: the request, its response, and what the client made of it
Call(site, op, arg, cred, r, out) ==
    /\ log' = Append(log, [site |-> site, op |-> op, arg |-> arg, api_key |-> cred,
                           raised |-> out.raised, ret |-> out.value])
    /\ response' = r

\* a line that makes no request
NoCall == UNCHANGED <<log, response>>

\* Attempt with a fault: "return bibtex, label" without "if bibtex:"
Attempt_unchecked(site, op, arg, cred, r, out, label, next) ==
    /\ Call(site, op, arg, cred, r, out)
    /\ IF out.raised
       THEN pc' = "raised" /\ UNCHANGED <<bibtex, result>>
       ELSE /\ bibtex' = out.value
            /\ pc' = "returned"
            /\ result' = <<out.value, label>>

\* "bibtex = client(...); if bibtex: return bibtex, label", then on to `next`
Attempt(site, op, arg, cred, r, out, label, next) ==
    /\ Call(site, op, arg, cred, r, out)
    /\ IF out.raised
       THEN pc' = "raised" /\ UNCHANGED <<bibtex, result>>
       ELSE /\ bibtex' = out.value
            /\ IF Truthy(out.value)
               THEN pc' = "returned" /\ result' = <<out.value, label>>
               ELSE pc' = next /\ UNCHANGED result

\* "bibtex = get_ads_bibtex(bibcode, api_key)" and the test of what it returned
AttemptAds(site, bibcode, label, next) ==
    \E r \in AdsExportResponses :
      Attempt(site, "get_ads_bibtex", bibcode, api_key, r, get_ads_bibtex(r), label, next)

\* "bibtex = get_inspire_bibtex(key)" and the test of what it returned
AttemptInspire(site, label, next) ==
    \E r \in InspireBibtexResponses :
      Attempt(site, "get_inspire_bibtex", key, None, r, get_inspire_bibtex(r), label, next)

\* "ads_bibcode, arxiv_id = get_ads_info_from_inspire(key)"
Resolve(next) ==
    /\ \E r \in InspireJsonResponses :
         LET out == get_ads_info_from_inspire(r) IN
           /\ Call("resolve", "get_ads_info_from_inspire", key, None, r, out)
           /\ IF out.raised
              THEN pc' = "raised" /\ UNCHANGED <<ads_bibcode, arxiv_id>>
              ELSE /\ ads_bibcode' = out.value[1]
                   /\ arxiv_id' = out.value[2]
                   /\ pc' = next
    /\ UNCHANGED <<bibtex, result>>

\* "if ads_bibcode: bibtex = get_ads_bibtex(ads_bibcode, api_key); if bibtex: return"
ViaInspire(label, next) ==
    /\ IF Truthy(ads_bibcode)
       THEN AttemptAds("via_inspire", ads_bibcode, label, next)
       ELSE pc' = next /\ NoCall /\ UNCHANGED <<bibtex, result>>
    /\ UNCHANGED <<ads_bibcode, arxiv_id>>

\* "if arxiv_id: ads_bibcode = search_ads_by_arxiv(arxiv_id, api_key)"
Search(next, after) ==
    /\ IF Truthy(arxiv_id)
       THEN \E r \in AdsSearchResponses :
              LET out == search_ads_by_arxiv(r) IN
                /\ Call("search", "search_ads_by_arxiv", arxiv_id, api_key, r, out)
                /\ IF out.raised
                   THEN pc' = "raised" /\ UNCHANGED ads_bibcode
                   ELSE ads_bibcode' = out.value /\ pc' = next
       ELSE pc' = after /\ NoCall /\ UNCHANGED ads_bibcode
    /\ UNCHANGED <<arxiv_id, bibtex, result>>

\* "if ads_bibcode: bibtex = get_ads_bibtex(ads_bibcode, api_key); if bibtex: return"
\* inside "if arxiv_id:"
ViaArxiv(label, next) ==
    /\ IF Truthy(ads_bibcode)
       THEN AttemptAds("via_arxiv", ads_bibcode, label, next)
       ELSE pc' = next /\ NoCall /\ UNCHANGED <<bibtex, result>>
    /\ UNCHANGED <<ads_bibcode, arxiv_id>>

\* ReturnNone with a fault: an exhausted strategy raises instead of returning
ReturnNone_raises ==
    /\ pc' = "raised"
    /\ NoCall
    /\ UNCHANGED <<ads_bibcode, arxiv_id, bibtex, result>>

\* "return None, None"
ReturnNone ==
    /\ pc' = "returned"
    /\ result' = <<None, None>>
    /\ NoCall
    /\ UNCHANGED <<ads_bibcode, arxiv_id, bibtex>>

At(f, site) == fn = f /\ pc = site
Frame == UNCHANGED <<key, api_key, source, fn>>

(***************************************************************************)
(* fetch_bibtex: the dispatch on the strategy name.                        *)
(***************************************************************************)
\* fetch_bibtex_target with a fault: an unrecognized name runs the auto strategy
fetch_bibtex_target_auto_default(s) ==
    IF s = "ads" THEN ADS_PREFERRED
    ELSE IF s = "inspire" THEN INSPIRE_PREFERRED
    ELSE AUTO

fetch_bibtex_target(s) ==
    IF s = "ads" THEN ADS_PREFERRED
    ELSE IF s = "inspire" THEN INSPIRE_PREFERRED
    ELSE IF s = "auto" THEN AUTO
    ELSE ADS_PREFERRED

\* the first line of each strategy function
Entry(f) ==
    IF f = ADS_PREFERRED THEN "direct"
    ELSE IF f = INSPIRE_PREFERRED THEN "first"
    ELSE "branch"

fetch_bibtex ==
    /\ At("fetch_bibtex", "call")
    /\ LET s == IF source = NOT_GIVEN THEN DEFAULT_SOURCE ELSE source
           f == fetch_bibtex_target(s)
       IN  fn' = f /\ pc' = Entry(f)
    /\ NoCall
    /\ UNCHANGED <<key, api_key, source, ads_bibcode, arxiv_id, bibtex, result>>

(***************************************************************************)
(* fetch_bibtex_ads_preferred                                              *)
(***************************************************************************)
\* ads_preferred_direct with a fault: the direct fetch made for every key
ads_preferred_direct_unguarded ==
    /\ At(ADS_PREFERRED, "direct")
    /\ AttemptAds("direct", key, LABEL_ADS_DIRECT, "resolve")
    /\ UNCHANGED <<ads_bibcode, arxiv_id>>
    /\ UNCHANGED <<key, api_key, source, fn>>

\* core.py:179-182
ads_preferred_direct ==
    /\ At(ADS_PREFERRED, "direct")
    /\ IF is_ads_bibcode(key)
       THEN AttemptAds("direct", key, LABEL_ADS_DIRECT, "resolve")
       ELSE pc' = "resolve" /\ NoCall /\ UNCHANGED <<bibtex, result>>
    /\ UNCHANGED <<ads_bibcode, arxiv_id>>
    /\ Frame

\* core.py:185
ads_preferred_resolve ==
    /\ At(ADS_PREFERRED, "resolve")
    /\ Resolve("via_inspire")
    /\ Frame

\* core.py:188-191
ads_preferred_via_inspire ==
    /\ At(ADS_PREFERRED, "via_inspire")
    /\ ViaInspire(LABEL_ADS_VIA_INSPIRE_PREFIX \o ads_bibcode \o LABEL_SUFFIX, "search")
    /\ Frame

\* ads_preferred_search with a fault: "elif arxiv_id:" in place of "if arxiv_id:"
ads_preferred_search_elif ==
    /\ At(ADS_PREFERRED, "search")
    /\ IF Truthy(ads_bibcode)
       THEN /\ pc' = "direct_fallback"
            /\ NoCall
            /\ UNCHANGED <<ads_bibcode, arxiv_id, bibtex, result>>
       ELSE Search("via_arxiv", "direct_fallback")
    /\ Frame

\* core.py:194-195
ads_preferred_search ==
    /\ At(ADS_PREFERRED, "search")
    /\ Search("via_arxiv", "direct_fallback")
    /\ Frame

\* core.py:196-199
ads_preferred_via_arxiv ==
    /\ At(ADS_PREFERRED, "via_arxiv")
    /\ ViaArxiv(LABEL_ADS_VIA_ARXIV_PREFIX \o arxiv_id \o LABEL_SUFFIX, "direct_fallback")
    /\ Frame

\* core.py:202-204
ads_preferred_direct_fallback ==
    /\ At(ADS_PREFERRED, "direct_fallback")
    /\ AttemptAds("direct_fallback", key, LABEL_ADS_DIRECT_FALLBACK, "inspire_fallback")
    /\ UNCHANGED <<ads_bibcode, arxiv_id>>
    /\ Frame

\* core.py:207-209
ads_preferred_inspire_fallback ==
    /\ At(ADS_PREFERRED, "inspire_fallback")
    /\ AttemptInspire("inspire_fallback", LABEL_INSPIRE_FALLBACK, "exhausted")
    /\ UNCHANGED <<ads_bibcode, arxiv_id>>
    /\ Frame

\* core.py:211
ads_preferred_exhausted ==
    /\ At(ADS_PREFERRED, "exhausted")
    /\ ReturnNone
    /\ Frame

(***************************************************************************)
(* fetch_bibtex_inspire_preferred                                          *)
(***************************************************************************)
\* inspire_preferred_first with a fault: a bibcode key goes to ADS first
inspire_preferred_first_ads_for_bibcode ==
    /\ At(INSPIRE_PREFERRED, "first")
    /\ IF is_ads_bibcode(key)
       THEN pc' = "direct" /\ NoCall /\ UNCHANGED <<bibtex, result>>
       ELSE AttemptInspire("first", LABEL_INSPIRE, "direct")
    /\ UNCHANGED <<ads_bibcode, arxiv_id>>
    /\ UNCHANGED <<key, api_key, source, fn>>

\* core.py:217-219
inspire_preferred_first ==
    /\ At(INSPIRE_PREFERRED, "first")
    /\ AttemptInspire("first", LABEL_INSPIRE, "direct")
    /\ UNCHANGED <<ads_bibcode, arxiv_id>>
    /\ Frame

\* inspire_preferred_direct with a fault: the raw-key fetch made for every key
inspire_preferred_direct_unguarded ==
    /\ At(INSPIRE_PREFERRED, "direct")
    /\ AttemptAds("direct", key, LABEL_ADS_FALLBACK_DIRECT, "resolve")
    /\ UNCHANGED <<ads_bibcode, arxiv_id>>
    /\ UNCHANGED <<key, api_key, source, fn>>

\* core.py:222-225
inspire_preferred_direct ==
    /\ At(INSPIRE_PREFERRED, "direct")
    /\ IF is_ads_bibcode(key)
       THEN AttemptAds("direct", key, LABEL_ADS_FALLBACK_DIRECT, "resolve")
       ELSE pc' = "resolve" /\ NoCall /\ UNCHANGED <<bibtex, result>>
    /\ UNCHANGED <<ads_bibcode, arxiv_id>>
    /\ Frame

\* core.py:228
inspire_preferred_resolve ==
    /\ At(INSPIRE_PREFERRED, "resolve")
    /\ Resolve("via_inspire")
    /\ Frame

\* core.py:229-232
inspire_preferred_via_inspire ==
    /\ At(INSPIRE_PREFERRED, "via_inspire")
    /\ ViaInspire(LABEL_ADS_FALLBACK_VIA_INSPIRE, "search")
    /\ Frame

\* core.py:234-235
inspire_preferred_search ==
    /\ At(INSPIRE_PREFERRED, "search")
    /\ Search("via_arxiv", "exhausted")
    /\ Frame

\* core.py:236-239
inspire_preferred_via_arxiv ==
    /\ At(INSPIRE_PREFERRED, "via_arxiv")
    /\ ViaArxiv(LABEL_ADS_FALLBACK_VIA_ARXIV, "exhausted")
    /\ Frame

\* core.py:241
inspire_preferred_exhausted ==
    /\ At(INSPIRE_PREFERRED, "exhausted")
    /\ ReturnNone
    /\ Frame

(***************************************************************************)
(* fetch_bibtex_auto                                                       *)
(***************************************************************************)
\* auto_branch with a fault: the key's classification is not consulted
auto_branch_always_inspire ==
    /\ At(AUTO, "branch")
    /\ pc' = "inspire"
    /\ NoCall
    /\ UNCHANGED <<ads_bibcode, arxiv_id, bibtex, result>>
    /\ UNCHANGED <<key, api_key, source, fn>>

\* core.py:246, 255
auto_branch ==
    /\ At(AUTO, "branch")
    /\ pc' = IF is_ads_bibcode(key) THEN "ads" ELSE "inspire"
    /\ NoCall
    /\ UNCHANGED <<ads_bibcode, arxiv_id, bibtex, result>>
    /\ Frame

\* core.py:248-250
auto_ads ==
    /\ At(AUTO, "ads")
    /\ AttemptAds("ads", key, LABEL_ADS_AUTO, "inspire_fallback")
    /\ UNCHANGED <<ads_bibcode, arxiv_id>>
    /\ Frame

\* core.py:252-254
auto_inspire_fallback ==
    /\ At(AUTO, "inspire_fallback")
    /\ AttemptInspire("inspire_fallback", LABEL_INSPIRE_FALLBACK, "exhausted")
    /\ UNCHANGED <<ads_bibcode, arxiv_id>>
    /\ Frame

\* core.py:257-259
auto_inspire ==
    /\ At(AUTO, "inspire")
    /\ AttemptInspire("inspire", LABEL_INSPIRE_AUTO, "resolve")
    /\ UNCHANGED <<ads_bibcode, arxiv_id>>
    /\ Frame

\* core.py:261
auto_resolve ==
    /\ At(AUTO, "resolve")
    /\ Resolve("via_inspire")
    /\ Frame

\* core.py:262-265
auto_via_inspire ==
    /\ At(AUTO, "via_inspire")
    /\ ViaInspire(LABEL_ADS_FALLBACK_VIA_INSPIRE, "search")
    /\ Frame

\* core.py:266-267
auto_search ==
    /\ At(AUTO, "search")
    /\ Search("via_arxiv", "exhausted")
    /\ Frame

\* core.py:268-271
auto_via_arxiv ==
    /\ At(AUTO, "via_arxiv")
    /\ ViaArxiv(LABEL_ADS_FALLBACK_VIA_ARXIV, "exhausted")
    /\ Frame

\* core.py:273
auto_exhausted ==
    /\ At(AUTO, "exhausted")
    /\ ReturnNone
    /\ Frame

Next ==
    \/ fetch_bibtex
    \/ ads_preferred_direct
    \/ ads_preferred_resolve
    \/ ads_preferred_via_inspire
    \/ ads_preferred_search
    \/ ads_preferred_via_arxiv
    \/ ads_preferred_direct_fallback
    \/ ads_preferred_inspire_fallback
    \/ ads_preferred_exhausted
    \/ inspire_preferred_first
    \/ inspire_preferred_direct
    \/ inspire_preferred_resolve
    \/ inspire_preferred_via_inspire
    \/ inspire_preferred_search
    \/ inspire_preferred_via_arxiv
    \/ inspire_preferred_exhausted
    \/ auto_branch
    \/ auto_ads
    \/ auto_inspire_fallback
    \/ auto_inspire
    \/ auto_resolve
    \/ auto_via_inspire
    \/ auto_search
    \/ auto_via_arxiv
    \/ auto_exhausted

Spec == Init /\ [][Next]_vars

(***************************************************************************)
(* Reading the log.                                                        *)
(***************************************************************************)
Returned == pc = "returned"

\* a call site appears in the log
Has(site) == \E i \in 1 .. Len(log) : log[i].site = site

\* the log entry of a call site that appears in it
EntryAt(site) == log[CHOOSE i \in 1 .. Len(log) : log[i].site = site]

\* the call returned a value, and the value is falsy: a miss
Missed(e) == ~e.raised /\ ~Truthy(e.ret)

\* the call returned a non-empty record
Succeeded(e) ==
    /\ e.op \in {"get_ads_bibtex", "get_inspire_bibtex"}
    /\ ~e.raised
    /\ Truthy(e.ret)

\* what the cross-reference resolver returned in this run
Resolved ==
    IF Has("resolve") /\ ~EntryAt("resolve").raised
    THEN EntryAt("resolve").ret
    ELSE <<None, None>>

ResolvedBibcode == Resolved[1]
ResolvedArxivId == Resolved[2]

\* what the ADS search by arXiv id returned in this run
Found ==
    IF Has("search") /\ ~EntryAt("search").raised THEN EntryAt("search").ret ELSE None

\* the position of a call site in a strategy's order of call sites
Rank(sites, s) == CHOOSE i \in 1 .. Len(sites) : sites[i] = s

\* the log visits the call sites in the order of `sites`, each at most once
InOrder(sites) ==
    /\ \A i \in 1 .. Len(log) : \E k \in 1 .. Len(sites) : sites[k] = log[i].site
    /\ \A i, j \in 1 .. Len(log) :
         i < j => Rank(sites, log[i].site) < Rank(sites, log[j].site)

\* the entry is a request `op` for `arg`, with the credential when it goes to ADS
IsRequest(e, op, arg) ==
    /\ e.op = op
    /\ e.arg = arg
    /\ e.api_key = IF op \in {"get_ads_bibtex", "search_ads_by_arxiv"} THEN api_key ELSE None

\* the run stopped at the first non-empty record and returned it with label(e)
StopsAtFirstSuccess(label(_)) ==
    /\ \A i \in 1 .. Len(log) :
         Succeeded(log[i]) =>
           /\ i = Len(log)
           /\ Returned
           /\ result = <<log[i].ret, label(log[i])>>
    /\ (Returned /\ result /= <<None, None>>) => (log /= <<>> /\ Succeeded(log[Len(log)]))
    /\ pc = "raised" <=> (log /= <<>> /\ log[Len(log)].raised)
    /\ \A i \in 1 .. Len(log) : log[i].raised => i = Len(log)

\* no call site that applies is passed over: when a site is in the log, so is
\* every earlier site of the order that applies; a run that returned the
\* absent pair has visited every site that applies
NothingSkipped(sites, applies(_)) ==
    /\ \A i \in 1 .. Len(log) : \A k \in 1 .. Len(sites) :
         (k < Rank(sites, log[i].site) /\ applies(sites[k])) => Has(sites[k])
    /\ (Returned /\ result = <<None, None>>) =>
         \A k \in 1 .. Len(sites) : applies(sites[k]) => Has(sites[k])

(***************************************************************************)
(* C1: fetch_bibtex returns a record together with a label, or absent      *)
(* together with absent; never a record without a label or a label without *)
(* a record.                                                               *)
(***************************************************************************)
C1_RecordAndLabelTogether ==
    /\ (result[1] = None) <=> (result[2] = None)
    /\ result[1] /= None => (Truthy(result[1]) /\ Truthy(result[2]) /\ Returned)

\* a record and its label were returned under an unrecognized strategy name
C1_Witness ==
    /\ Returned
    /\ source = "ADS"
    /\ result[1] = TEXT_ENTRY
    /\ result[2] = LABEL_ADS_DIRECT_FALLBACK

(***************************************************************************)
(* C2: the ADS-preferred strategy makes its attempts in the order direct,  *)
(* resolver, resolved bibcode, arXiv search and found bibcode, raw key,    *)
(* INSPIRE; it stops at the first non-empty record, which it returns with  *)
(* that attempt's label, and makes no request afterwards.                  *)
(***************************************************************************)
AdsPreferredSites ==
    <<"direct", "resolve", "via_inspire", "search", "via_arxiv", "direct_fallback",
      "inspire_fallback">>

\* the request each call site of fetch_bibtex_ads_preferred makes
AdsPreferredRequest(i) ==
    LET e == log[i] IN
      CASE e.site = "direct" ->
             is_ads_bibcode(key) /\ IsRequest(e, "get_ads_bibtex", key)
        [] e.site = "resolve" -> IsRequest(e, "get_ads_info_from_inspire", key)
        [] e.site = "via_inspire" ->
             Truthy(ResolvedBibcode) /\ IsRequest(e, "get_ads_bibtex", ResolvedBibcode)
        [] e.site = "search" ->
             Truthy(ResolvedArxivId) /\ IsRequest(e, "search_ads_by_arxiv", ResolvedArxivId)
        [] e.site = "via_arxiv" ->
             /\ i > 1
             /\ log[i - 1].site = "search"
             /\ Truthy(Found)
             /\ IsRequest(e, "get_ads_bibtex", Found)
        [] e.site = "direct_fallback" -> IsRequest(e, "get_ads_bibtex", key)
        [] e.site = "inspire_fallback" -> IsRequest(e, "get_inspire_bibtex", key)
        [] OTHER -> FALSE

\* the label of each attempt of fetch_bibtex_ads_preferred
AdsPreferredLabel(e) ==
    CASE e.site = "direct" -> LABEL_ADS_DIRECT
      [] e.site = "via_inspire" -> LABEL_ADS_VIA_INSPIRE_PREFIX \o e.arg \o LABEL_SUFFIX
      [] e.site = "via_arxiv" ->
           LABEL_ADS_VIA_ARXIV_PREFIX \o ResolvedArxivId \o LABEL_SUFFIX
      [] e.site = "direct_fallback" -> LABEL_ADS_DIRECT_FALLBACK
      [] e.site = "inspire_fallback" -> LABEL_INSPIRE_FALLBACK
      [] OTHER -> None

\* whether a call site of fetch_bibtex_ads_preferred applies in this run
AdsPreferredApplies(site) ==
    CASE site = "direct" -> is_ads_bibcode(key)
      [] site = "via_inspire" -> Truthy(ResolvedBibcode)
      [] site = "search" -> Truthy(ResolvedArxivId)
      [] site = "via_arxiv" -> Truthy(Found)
      [] OTHER -> TRUE

\* the run is a run of the ADS-preferred strategy
AdsPreferredRun ==
    /\ InOrder(AdsPreferredSites)
    /\ \A i \in 1 .. Len(log) : AdsPreferredRequest(i)
    /\ StopsAtFirstSuccess(AdsPreferredLabel)
    /\ NothingSkipped(AdsPreferredSites, AdsPreferredApplies)

\* C2: a run of the ADS-preferred strategy makes its attempts in order and stops at
\* the first non-empty record; INSPIRE's record comes only after every ADS attempt missed
C2_AdsPreferredOrder ==
    fn = ADS_PREFERRED =>
      /\ AdsPreferredRun
      /\ (Returned /\ result[2] = LABEL_INSPIRE_FALLBACK) =>
           \A i \in 1 .. (Len(log) - 1) :
             log[i].op \in {"get_ads_bibtex", "search_ads_by_arxiv",
                            "get_ads_info_from_inspire"}
             /\ ~Succeeded(log[i])
      /\ (Has("direct") /\ Succeeded(EntryAt("direct"))) =>
           (Len(log) = 1 /\ result = <<log[1].ret, LABEL_ADS_DIRECT>>)

\* every attempt before INSPIRE was made and missed, and INSPIRE's record is returned
C2_Witness ==
    /\ fn = ADS_PREFERRED
    /\ Returned
    /\ key = KEY_BIBCODE
    /\ Len(log) = 7
    /\ result = <<TEXT_ENTRY, LABEL_INSPIRE_FALLBACK>>

(***************************************************************************)
(* C3 as the spec states it: under the ADS-preferred strategy the ADS      *)
(* search by arXiv id is made only when the resolver returned no bibcode,  *)
(* and the label "ADS via arXiv (<id>)" is never returned in a run where a *)
(* bibcode was resolved.                                                   *)
(***************************************************************************)
C3_SearchOnlyWithoutBibcode ==
    fn = ADS_PREFERRED =>
      /\ Has("search") => ~Truthy(ResolvedBibcode)
      /\ (Returned /\ Truthy(ResolvedBibcode)) =>
           result[2] /= LABEL_ADS_VIA_ARXIV_PREFIX \o ResolvedArxivId \o LABEL_SUFFIX

(***************************************************************************)
(* C3, amended: under the ADS-preferred strategy the ADS search by arXiv   *)
(* id follows the resolved-bibcode fetch: it is made whenever the resolver *)
(* returned an arXiv id and no earlier attempt succeeded, whether or not a *)
(* bibcode was resolved; when a bibcode was resolved too, the search comes *)
(* after FetchAdsBibtex(bibcode) missed, and the raw-key attempt is made   *)
(* only after the search (and the fetch of the bibcode it found) missed.   *)
(***************************************************************************)
C3_SearchFollowsBibcodeFetch ==
    fn = ADS_PREFERRED =>
      /\ Has("search") =>
           /\ Truthy(ResolvedArxivId)
           /\ IsRequest(EntryAt("search"), "search_ads_by_arxiv", ResolvedArxivId)
           /\ Truthy(ResolvedBibcode) =>
                (Has("via_inspire") /\ Missed(EntryAt("via_inspire")))
      /\ (Has("direct_fallback") /\ Truthy(ResolvedArxivId)) =>
           /\ Has("search")
           /\ Missed(EntryAt("search")) \/ (Has("via_arxiv") /\ Missed(EntryAt("via_arxiv")))
      /\ (Returned /\ Has("via_arxiv") /\ Succeeded(EntryAt("via_arxiv"))) =>
           result[2] = LABEL_ADS_VIA_ARXIV_PREFIX \o ResolvedArxivId \o LABEL_SUFFIX

\* a bibcode and an arXiv id were resolved, the bibcode's fetch missed, and the
\* record found through the arXiv search is returned
C3_Witness ==
    /\ fn = ADS_PREFERRED
    /\ Returned
    /\ ResolvedBibcode = BIBCODE_A
    /\ ResolvedArxivId = ARXIV_A
    /\ Has("via_inspire")
    /\ result[2] = LABEL_ADS_VIA_ARXIV_PREFIX \o ARXIV_A \o LABEL_SUFFIX

(***************************************************************************)
(* C4 as the spec states it: under the INSPIRE-preferred strategy          *)
(* FetchAdsBibtex is never invoked on the raw key; every ADS export        *)
(* request is for a bibcode the resolver or the arXiv search returned, and *)
(* every ADS label is "via INSPIRE" or "via arXiv".                        *)
(***************************************************************************)
C4_NoRawKeyAdsFetch ==
    fn = INSPIRE_PREFERRED =>
      /\ \A i \in 1 .. Len(log) :
           log[i].op = "get_ads_bibtex" => log[i].site \in {"via_inspire", "via_arxiv"}
      /\ (Returned /\ result[2] /= None) =>
           result[2] \in {LABEL_INSPIRE, LABEL_ADS_FALLBACK_VIA_INSPIRE,
                          LABEL_ADS_FALLBACK_VIA_ARXIV}

(***************************************************************************)
(* C4, amended: under the INSPIRE-preferred strategy FetchAdsBibtex is     *)
(* invoked on the raw key only when the key classifies as AdsBibcode, as   *)
(* the second request, right after FetchInspireBibtex(key) missed, with    *)
(* label "ADS (fallback, direct)"; every other ADS export request is for a *)
(* bibcode the resolver or the arXiv search returned, with label           *)
(* "ADS (fallback, via INSPIRE)" or "ADS (fallback, via arXiv)", and no    *)
(* raw-key attempt follows the resolver.                                   *)
(***************************************************************************)
C4_RawKeyOnlyForBibcodeKeys ==
    fn = INSPIRE_PREFERRED =>
      /\ \A i \in 1 .. Len(log) :
           log[i].op = "get_ads_bibtex" =>
             \/ /\ log[i].site = "direct"
                /\ is_ads_bibcode(key)
                /\ i = 2
                /\ log[1].op = "get_inspire_bibtex"
                /\ Missed(log[1])
                /\ IsRequest(log[i], "get_ads_bibtex", key)
                /\ Succeeded(log[i]) => result[2] = LABEL_ADS_FALLBACK_DIRECT
             \/ /\ log[i].site = "via_inspire"
                /\ Truthy(ResolvedBibcode)
                /\ IsRequest(log[i], "get_ads_bibtex", ResolvedBibcode)
                /\ Succeeded(log[i]) => result[2] = LABEL_ADS_FALLBACK_VIA_INSPIRE
             \/ /\ log[i].site = "via_arxiv"
                /\ Truthy(Found)
                /\ log[i - 1].site = "search"
                /\ IsRequest(log[i], "get_ads_bibtex", Found)
                /\ Succeeded(log[i]) => result[2] = LABEL_ADS_FALLBACK_VIA_ARXIV
      /\ (is_ads_bibcode(key) /\ Len(log) >= 2) => log[2].site = "direct"
      /\ (Returned /\ result[2] /= None) =>
           result[2] \in {LABEL_INSPIRE, LABEL_ADS_FALLBACK_DIRECT,
                          LABEL_ADS_FALLBACK_VIA_INSPIRE, LABEL_ADS_FALLBACK_VIA_ARXIV}
      /\ result[2] = LABEL_ADS_FALLBACK_DIRECT => is_ads_bibcode(key)

\* INSPIRE missed for a bibcode key and the record of the raw-key ADS fetch is returned
C4_Witness ==
    /\ fn = INSPIRE_PREFERRED
    /\ Returned
    /\ key = KEY_BIBCODE
    /\ Len(log) = 2
    /\ log[2].arg = key
    /\ result = <<TEXT_ENTRY, LABEL_ADS_FALLBACK_DIRECT>>

(***************************************************************************)
(* C5: under the INSPIRE-preferred strategy FetchInspireBibtex(key) is the *)
(* first request for every key; when it yields a non-empty record, that    *)
(* record is returned with label "INSPIRE" and no ADS or resolver request  *)
(* is made, also for a key that classifies as AdsBibcode.                  *)
(***************************************************************************)
C5_InspireFirst ==
    fn = INSPIRE_PREFERRED =>
      /\ pc /= "first" => log /= <<>>
      /\ log /= <<>> =>
           /\ log[1].site = "first"
           /\ IsRequest(log[1], "get_inspire_bibtex", key)
           /\ Succeeded(log[1]) =>
                /\ Len(log) = 1
                /\ Returned
                /\ result = <<log[1].ret, LABEL_INSPIRE>>
      /\ \A i \in 2 .. Len(log) : Missed(log[1])

\* INSPIRE answered for a bibcode key: its record is returned after one request
C5_Witness ==
    /\ fn = INSPIRE_PREFERRED
    /\ Returned
    /\ is_ads_bibcode(key)
    /\ Len(log) = 1
    /\ response.text = TEXT_PADDED
    /\ result = <<strip(TEXT_PADDED), LABEL_INSPIRE>>

(***************************************************************************)
(* C6: the auto strategy branches once on IsAdsBibcode(key).  A bibcode    *)
(* key: FetchAdsBibtex(key) ("ADS (auto)"), then FetchInspireBibtex(key)   *)
(* ("INSPIRE (fallback)"), no resolver and no arXiv search.  Any other     *)
(* key: FetchInspireBibtex(key) ("INSPIRE (auto)"), the resolver,          *)
(* FetchAdsBibtex(resolved bibcode) ("ADS (fallback, via INSPIRE)"), the   *)
(* arXiv search and FetchAdsBibtex of the bibcode found ("ADS (fallback,   *)
(* via arXiv)"), and no FetchAdsBibtex on the raw key.  The first          *)
(* successful attempt decides the result.                                  *)
(***************************************************************************)
AutoAdsSites == <<"ads", "inspire_fallback">>
AutoInspireSites == <<"inspire", "resolve", "via_inspire", "search", "via_arxiv">>

\* the request each call site of fetch_bibtex_auto makes
AutoRequest(i) ==
    LET e == log[i] IN
      CASE e.site = "ads" -> IsRequest(e, "get_ads_bibtex", key)
        [] e.site = "inspire_fallback" -> IsRequest(e, "get_inspire_bibtex", key)
        [] e.site = "inspire" -> IsRequest(e, "get_inspire_bibtex", key)
        [] e.site = "resolve" -> IsRequest(e, "get_ads_info_from_inspire", key)
        [] e.site = "via_inspire" ->
             Truthy(ResolvedBibcode) /\ IsRequest(e, "get_ads_bibtex", ResolvedBibcode)
        [] e.site = "search" ->
             Truthy(ResolvedArxivId) /\ IsRequest(e, "search_ads_by_arxiv", ResolvedArxivId)
        [] e.site = "via_arxiv" ->
             /\ log[i - 1].site = "search"
             /\ Truthy(Found)
             /\ IsRequest(e, "get_ads_bibtex", Found)
        [] OTHER -> FALSE

\* the label of each attempt of fetch_bibtex_auto
AutoLabel(e) ==
    CASE e.site = "ads" -> LABEL_ADS_AUTO
      [] e.site = "inspire_fallback" -> LABEL_INSPIRE_FALLBACK
      [] e.site = "inspire" -> LABEL_INSPIRE_AUTO
      [] e.site = "via_inspire" -> LABEL_ADS_FALLBACK_VIA_INSPIRE
      [] e.site = "via_arxiv" -> LABEL_ADS_FALLBACK_VIA_ARXIV
      [] OTHER -> None

\* whether a call site of fetch_bibtex_auto applies in this run
AutoApplies(site) ==
    CASE site = "via_inspire" -> Truthy(ResolvedBibcode)
      [] site = "search" -> Truthy(ResolvedArxivId)
      [] site = "via_arxiv" -> Truthy(Found)
      [] OTHER -> TRUE

\* C6: a run of the auto strategy follows the branch chosen by is_ads_bibcode(key), in
\* order, and the first successful attempt decides the result
C6_AutoBranches ==
    fn = AUTO =>
      /\ InOrder(IF is_ads_bibcode(key) THEN AutoAdsSites ELSE AutoInspireSites)
      /\ \A i \in 1 .. Len(log) : AutoRequest(i)
      /\ StopsAtFirstSuccess(AutoLabel)
      /\ NothingSkipped(IF is_ads_bibcode(key) THEN AutoAdsSites ELSE AutoInspireSites,
                        AutoApplies)
      /\ is_ads_bibcode(key) =>
           \A i \in 1 .. Len(log) :
             log[i].op \notin {"get_ads_info_from_inspire", "search_ads_by_arxiv"}
      /\ ~is_ads_bibcode(key) =>
           \A i \in 1 .. Len(log) :
             log[i].op = "get_ads_bibtex" => log[i].site \in {"via_inspire", "via_arxiv"}

\* a texkey whose INSPIRE fetch missed, whose resolver returned a bibcode, and
\* whose ADS fetch of that bibcode succeeded
C6_Witness ==
    /\ fn = AUTO
    /\ Returned
    /\ key = KEY_TEXKEY
    /\ Len(log) = 3
    /\ Missed(log[1])
    /\ ResolvedBibcode = BIBCODE_A
    /\ IsRequest(log[3], "get_ads_bibtex", BIBCODE_A)
    /\ result = <<TEXT_ENTRY, LABEL_ADS_FALLBACK_VIA_INSPIRE>>

(***************************************************************************)
(* C7: fetch_bibtex runs the ADS-preferred strategy for "ads", the         *)
(* INSPIRE-preferred strategy for "inspire", the auto strategy for "auto", *)
(* and for every other name, and when the name is not given, behaves as    *)
(* for "ads": the same requests, the same result, and no error for the     *)
(* unrecognized name.                                                      *)
(***************************************************************************)
C7_Dispatch ==
    /\ pc = "call" => (fn = "fetch_bibtex" /\ log = <<>>)
    /\ pc /= "call" =>
         /\ source = "ads" => fn = ADS_PREFERRED
         /\ source = "inspire" => fn = INSPIRE_PREFERRED
         /\ source = "auto" => fn = AUTO
         /\ source \notin {"ads", "inspire", "auto"} =>
              /\ fn = ADS_PREFERRED
              /\ AdsPreferredRun
              /\ log = <<>> => pc \in {"direct", "resolve"}
    /\ pc = "raised" => (log /= <<>> /\ log[Len(log)].raised)

\* an unrecognized name ran the ADS-preferred strategy to its INSPIRE fallback
C7_Witness ==
    /\ source = "ADS"
    /\ Returned
    /\ key = KEY_TEXKEY
    /\ Len(log) = 5
    /\ log[1].site = "resolve"
    /\ log[2].site = "via_inspire"
    /\ result[2] = LABEL_INSPIRE_FALLBACK

(***************************************************************************)
(* C8: no lookup attempt aborts a resolution: a transport failure or a     *)
(* body that is not JSON counts as a miss, the strategy goes on, and no    *)
(* exception reaches the caller.                                           *)
(***************************************************************************)
C8_NoExceptionEscapes ==
    /\ pc /= "raised"
    /\ \A i \in 1 .. Len(log) : ~log[i].raised

(***************************************************************************)
(* C9: for every key and every strategy, when every service call misses    *)
(* (the fetches return absent, the resolver (absent, absent), the search   *)
(* absent) the strategy returns (absent, absent).                          *)
(***************************************************************************)
AllMissed ==
    \A i \in 1 .. Len(log) :
      /\ ~log[i].raised
      /\ log[i].ret = IF log[i].op = "get_ads_info_from_inspire" THEN <<None, None>> ELSE None

\* C9: when every service call misses, the strategy returns (absent, absent)
C9_AllMissReturnsAbsentPair ==
    AllMissed =>
      /\ result = <<None, None>>
      /\ pc /= "raised"
      /\ Returned \/ ENABLED Next
      /\ Returned =>
           /\ log /= <<>>
           /\ fn = ADS_PREFERRED => log[Len(log)].site = "inspire_fallback"
           /\ fn = INSPIRE_PREFERRED => log[Len(log)].site = "resolve"
           /\ fn = AUTO => log[Len(log)].site \in {"inspire_fallback", "resolve"}

\* a key of neither kind, every call of the INSPIRE-preferred strategy missed
C9_Witness ==
    /\ AllMissed
    /\ Returned
    /\ key = KEY_UNKNOWN
    /\ ~is_ads_bibcode(key)
    /\ ~is_inspire_key(key)
    /\ fn = INSPIRE_PREFERRED
    /\ Len(log) = 2
    /\ result = <<None, None>>

(***************************************************************************)
(* C10: a returned record is non-empty after trimming, and one that came   *)
(* from ADS does not begin with "No records".  An ADS export answer with   *)
(* success status whose payload is empty, whitespace or begins with        *)
(* "No records", and an INSPIRE answer with non-success status or a blank  *)
(* body, are misses: the strategy goes on instead of returning the text.   *)
(***************************************************************************)
\* the latest response is an ADS export answer that holds no record
UnusableAdsAnswer ==
    /\ log /= <<>>
    /\ log[Len(log)].op = "get_ads_bibtex"
    /\ ~response.exc
    /\ response.status_code = HTTP_OK
    /\ response.json_ok
    /\ "export" \in DOMAIN response.json
    /\ response.json.export /= None
    /\ \/ strip(response.json.export) = EMPTY
       \/ startswith(response.json.export, NO_RECORDS)

\* the latest response is an INSPIRE BibTeX answer that holds no record
UnusableInspireAnswer ==
    /\ log /= <<>>
    /\ log[Len(log)].op = "get_inspire_bibtex"
    /\ ~response.exc
    /\ response.status_code /= HTTP_OK \/ strip(response.text) = EMPTY

\* C10: a returned record is usable, and an answer that holds no record is a miss
C10_ReturnedRecordUsable ==
    /\ (Returned /\ result[1] /= None) =>
         /\ strip(result[1]) /= EMPTY
         /\ log[Len(log)].op = "get_ads_bibtex" => ~startswith(result[1], NO_RECORDS)
    /\ (UnusableAdsAnswer \/ UnusableInspireAnswer) =>
         /\ Missed(log[Len(log)])
         /\ result = <<None, None>>
         /\ pc /= "raised"
         /\ Returned \/ ENABLED Next

\* ADS answered a direct fetch with its not-found marker and the strategy went on
C10_Witness ==
    /\ UnusableAdsAnswer
    /\ response.json.export = TEXT_NO_RECORDS
    /\ fn = ADS_PREFERRED
    /\ log[Len(log)].site = "direct"
    /\ pc = "resolve"

(***************************************************************************)
(* C11: ResolveAdsInfoFromInspire reads the first hit only.  The bibcode   *)
(* is the value of the first entry, in list order, of that hit's           *)
(* external-identifier list whose schema is "ADS", absent when there is    *)
(* none; the arXiv id is the value of the first entry of that hit's        *)
(* arXiv-eprint list, absent when the list is empty, whether or not a      *)
(* bibcode was found.  Zero hits or a non-success status give (absent,     *)
(* absent).                                                                *)
(***************************************************************************)
\* the latest call is the resolver's and its request was answered
ResolverAnswered ==
    /\ log /= <<>>
    /\ log[Len(log)].op = "get_ads_info_from_inspire"
    /\ ~response.exc

\* the hits of the latest response, an INSPIRE JSON answer with success status
AnsweredHits == response.json.hits.hits

\* the positions of the "ADS" entries in the first hit's external-identifier list
AdsPositions ==
    LET ids == AnsweredHits[1].metadata.external_system_identifiers
    IN  {j \in 1 .. Len(ids) : ids[j].schema = SCHEMA_ADS}

\* C11: the resolver's outputs are the first "ADS" value and the first eprint value of
\* the first hit, each on its own; no hit or a non-success status gives (absent, absent)
C11_ResolverReadsFirstHit ==
    ResolverAnswered =>
      LET e == log[Len(log)] IN
        /\ response.status_code /= HTTP_OK => (~e.raised /\ e.ret = <<None, None>>)
        /\ (response.status_code = HTTP_OK /\ response.json_ok) =>
             /\ ~e.raised
             /\ ads_bibcode = e.ret[1]
             /\ arxiv_id = e.ret[2]
             /\ "hits" \notin DOMAIN response.json => e.ret = <<None, None>>
             /\ "hits" \in DOMAIN response.json =>
                  IF AnsweredHits = <<>>
                  THEN e.ret = <<None, None>>
                  ELSE LET ids == AnsweredHits[1].metadata.external_system_identifiers
                           eps == AnsweredHits[1].metadata.arxiv_eprints
                       IN  /\ e.ret[1] =
                                IF AdsPositions = {} THEN None
                                ELSE ids[CHOOSE j \in AdsPositions :
                                           \A k \in AdsPositions : j <= k].value
                           /\ e.ret[2] = IF eps = <<>> THEN None ELSE eps[1].value

\* the first hit lists a non-ADS entry and two "ADS" entries and no eprint, a later
\* hit has an eprint: the first "ADS" value is taken and the arXiv id is absent
C11_Witness ==
    /\ ResolverAnswered
    /\ response.status_code = HTTP_OK
    /\ response.json_ok
    /\ "hits" \in DOMAIN response.json
    /\ Len(AnsweredHits) = 2
    /\ AnsweredHits[1].metadata.external_system_identifiers =
         <<[schema |-> SCHEMA_ADS, value |-> KEY_BIBCODE],
           [schema |-> SCHEMA_ADS, value |-> BIBCODE_A]>>
    /\ AnsweredHits[1].metadata.arxiv_eprints = <<>>
    /\ AnsweredHits[2].metadata.arxiv_eprints /= <<>>
    /\ log[Len(log)].ret = <<KEY_BIBCODE, None>>

\* the other presence combinations of the resolver's two outputs
C11_BothPresent ==
    ResolverAnswered /\ Truthy(log[Len(log)].ret[1]) /\ Truthy(log[Len(log)].ret[2])
C11_OnlyArxivId ==
    /\ ResolverAnswered
    /\ ~log[Len(log)].raised
    /\ log[Len(log)].ret[1] = None
    /\ log[Len(log)].ret[2] = ARXIV_B
    /\ response.status_code = HTTP_OK
    /\ Len(AnsweredHits[1].metadata.arxiv_eprints) = 2
C11_BothAbsentWithHits ==
    /\ ResolverAnswered
    /\ log[Len(log)].ret = <<None, None>>
    /\ response.status_code = HTTP_OK
    /\ response.json_ok
    /\ "hits" \in DOMAIN response.json
    /\ Len(AnsweredHits) = 2

(***************************************************************************)
(* C12: every resolution ends, in a returned result, after a bounded       *)
(* number of requests made one at a time, none of them a repeat of a       *)
(* request that failed: at most 7 under the ADS-preferred strategy, 6      *)
(* under the INSPIRE-preferred strategy, 5 under the auto strategy (2 for  *)
(* a key that classifies as AdsBibcode); each client invocation is one     *)
(* request.                                                                *)
(***************************************************************************)
\* the most requests one run of the running strategy may make, as C12 states it
RequestBound ==
    IF fn = ADS_PREFERRED THEN 7
    ELSE IF fn = INSPIRE_PREFERRED THEN 6
    ELSE IF fn = AUTO THEN (IF is_ads_bibcode(key) THEN 2 ELSE 5)
    ELSE 0

\* two log entries are the same request: same client, same argument, same credential
SameRequest(a, b) == a.op = b.op /\ a.arg = b.arg /\ a.api_key = b.api_key

\* the number of requests stays within the bound of the running strategy
C12_RequestsBounded == Len(log) <= RequestBound

\* no request is made a second time in a run
C12_NoRequestRepeated ==
    \A i, j \in 1 .. Len(log) : i < j => ~SameRequest(log[i], log[j])

\* what the code does instead: only an ADS export request is ever made again, after
\* it missed, when the raw key, the resolved bibcode and the bibcode found by the
\* search coincide; the raw key of a bibcode key is fetched at "direct" and again at
\* "direct_fallback"
C12_RepeatsAreAdsFetches ==
    \A i, j \in 1 .. Len(log) :
      (i < j /\ SameRequest(log[i], log[j])) =>
        /\ log[i].op = "get_ads_bibtex"
        /\ Missed(log[i])
        /\ log[i].site /= log[j].site

\* the raw key of a bibcode key was fetched from ADS twice in one run
C12_RawKeyFetchedTwice ==
    /\ fn = ADS_PREFERRED
    /\ Has("direct")
    /\ Has("direct_fallback")
    /\ SameRequest(EntryAt("direct"), EntryAt("direct_fallback"))

\* the run has not ended in an exception, and it goes on until it has returned
C12_EndsInReturnedResult ==
    /\ pc /= "raised"
    /\ Returned \/ ENABLED Next

\* the run goes on until it has returned or an exception has left it
C12_RunEnds == pc \in {"returned", "raised"} \/ ENABLED Next

\* C12: at most 7, 6, 5 (2) requests, none made twice, and the run ends in a returned
\* result
C12_BoundedRunReturns ==
    /\ C12_RequestsBounded
    /\ C12_NoRequestRepeated
    /\ C12_EndsInReturnedResult

\* the bounds are reached: a run of each strategy with as many requests as C12 allows
C12_AdsPreferredBoundReached == fn = ADS_PREFERRED /\ Len(log) = 7 /\ Returned
C12_InspirePreferredBoundReached == fn = INSPIRE_PREFERRED /\ Len(log) = 6 /\ Returned
C12_AutoBoundReached == fn = AUTO /\ ~is_ads_bibcode(key) /\ Len(log) = 5 /\ Returned
C12_AutoBibcodeBoundReached == fn = AUTO /\ is_ads_bibcode(key) /\ Len(log) = 2 /\ Returned

====
